---- MODULE Spec2Model ----
(***************************************************************************)
(* The dApp browser bridge of the wallet (app/browser/web.tsx) together    *)
(* with the per-domain permission store (src/lib/permissions.ts).          *)
(*                                                                         *)
(* One WebScreen instance is modelled.  Its React state cells are the      *)
(* variables; every event handler is one action.  A handler that awaits a  *)
(* call to the chain collaborator (fee estimation, broadcast, read RPC)    *)
(* is split at that await: the first half is the action that starts the   *)
(* call and records the values the closure captured, the second half is    *)
(* the action that resumes with the captured values.  Reads and writes of  *)
(* the permission store are taken in the same step as the handler that     *)
(* awaits them.  The permission checks use the host of currentUrl          *)
(* (domain), which changes when a navigation starts; pageHost is the host  *)
(* of the document the WebView still displays and that posts requests.     *)
(***************************************************************************)
EXTENDS Integers, Sequences, FiniteSets, TLC

\* ---------------------------------------------------------------- bounds
MaxReq == 2

\* permission store calls in flight at the same time
MaxPermOps == 2

\* ------------------------------------------------------------ vocabulary
Domains == {"d1", "d2"}

\* host of initialUrl
InitialDomain == "d1"

PUBLIC_RPC_METHODS == {"eth_chainId"}
CONNECTED_READ_RPC_METHODS ==
    {"eth_getBalance", "eth_getTransactionCount", "eth_call", "eth_estimateGas"}
SIGN_METHODS == {"personal_sign", "eth_signTypedData", "eth_signTypedData_v4"}
SEND_METHOD == "eth_sendTransaction"
OtherMethods == {"wallet_switchEthereumChain"}

Methods ==
    {SEND_METHOD} \cup SIGN_METHODS \cup PUBLIC_RPC_METHODS
        \cup CONNECTED_READ_RPC_METHODS \cup OtherMethods

\* What the page put in params: well formed and naming the wallet's own
\* address ("good"), well formed but naming another address ("foreign"),
\* or malformed ("bad").
Args == {"good", "foreign", "bad"}

\* what the transaction object of an eth_sendTransaction carries: well
\* formed, without a valid `to`, with a chainId of another network, or with
\* a `from` that is not the wallet's address
TxArgs == {"good", "bad", "otherChain", "otherFrom"}

\* ELECTRONEUM.chainId
ELECTRONEUM_chainId == 52014

\* the session's address and an address that is not the wallet's
address == "wallet"
otherAddress == "other"

\* the fee fields the transaction of the Transaction slot carries: none yet
\* ("unset"), those of an estimate with EIP-1559 fee data, with a gas price,
\* or with neither ("unknown": gas limit only, fee 0)
FeeModes == {"eip1559", "legacy", "unknown"}

isPublicRpc(method) == method \in PUBLIC_RPC_METHODS
isConnectedReadRpc(method) == method \in CONNECTED_READ_RPC_METHODS
isSignMethod(method) == method \in SIGN_METHODS

\* HoldToConfirm: the default hold duration (ms = 900) and the step by which
\* the model advances time
ms == 900
TickMs == 300

\* null of RpcReq | null, of pendingTx and of pendingOrigin
NoRpc == [id |-> 0, origin |-> "", method |-> "", arg |-> ""]
NoTx == [rpc |-> NoRpc, fee |-> "unset"]
NoOrigin == ""

\* no HoldToConfirm is pressed: timerRef.current is null
NoHold == [timer |-> "none", sheet |-> "", sign |-> NoRpc, tx |-> NoTx, elapsed |-> 0]

RpcReq == [id : 1..MaxReq, origin : Domains, method : Methods, arg : Args \cup TxArgs]

\* getDomain(url): the host of a URL; origins are identified with their host
getDomain(origin) == origin

VARIABLES
    isUnlocked,     \* session: unlocked, mnemonic and address present
    domain,         \* getDomain(currentUrl)
    pageHost,       \* host of the document the WebView is showing
    store,          \* permission store: domain -> "absent" | "connected" | "unconnected"
    pendingOrigin,  \* Connect slot
    queuedRpc,      \* request queued behind the connect
    pendingSign,    \* Sign slot (the RpcReq whose payload is previewed)
    signing,
    pendingTx,      \* Transaction slot: [rpc, fee] (fee: the fee fields of tx)
    estimating,
    sending,
    estTasks,       \* beginTxApproval instances awaiting getFeeData/estimateGas
    sendTask,       \* approveTx instance awaiting sendTransaction (captured pendingTx)
    readTasks,      \* handleRpc instances awaiting provider.send
    replies,        \* per request id, the respondRpc calls in order
    pageAccounts,   \* window.__DW_ACCOUNTS is [address]
    broadcast,      \* transactions handed to sendTransaction: [rpc, to, from, chainId, fee]
    approved,       \* hosts whose connect request was approved, not yet disconnected
    nextId,         \* next request id the page will use
    lastEvent,      \* the handler that ran last and the id of the request it acted on
    hold,           \* the HoldToConfirm being pressed: its timer and the onConfirmed it was rendered with
    mnemonic,       \* session: the mnemonic held in memory, or NoMnemonic
    vault,          \* SecureStore item dw_vault_v1, or NoVault
    unlockError,    \* unlock screen: its error message, or NoError
    secure,         \* SecureStore items dw_has_wallet, dw_biometric_enabled, dw_autolock_enabled, dw_bio_pin
    prefs,          \* session: address, biometricEnabled, autoLockEnabled
    route,          \* the screen on top of the router and the mnemonic it was given as parameter
    permTasks,      \* setDomainConnected / disconnectDomain calls between their read and their write
    page,           \* the injected script of the document on screen: its rid and its pending promises
    wire            \* messages the pages posted, and the replies injected so far

vars == <<isUnlocked, domain, pageHost, store, pendingOrigin, queuedRpc, pendingSign,
          signing, pendingTx, estimating, sending, estTasks, sendTask,
          readTasks, replies, pageAccounts, broadcast,
          approved, nextId, lastEvent, hold, mnemonic, vault,
          unlockError, secure, prefs, route, permTasks, page, wire>>

\* the state outside the browser screen: session secret, vault, unlock screen
\* the permission store's calls in flight and the page's side of the bridge
raceVars == <<permTasks, page, wire>>

walletVars == <<mnemonic, vault, unlockError, secure, prefs, route, raceVars>>

\* ------------------------------------------------------ permission store
\* The map is a JSON object indexed with s[domain].  For the key "__proto__"
\* s[domain] is the object's prototype: reading it finds no `connected`,
\* assigning it replaces the prototype instead of adding an entry, and
\* JSON.stringify writes own entries only.
isDomainConnected(s, d) == s[d] = "connected"

setDomainConnected(s, d, connected) ==
    IF d = "__proto__" THEN s
    ELSE [s EXCEPT ![d] = IF connected THEN "connected" ELSE "unconnected"]

disconnectDomain(s, d) == [s EXCEPT ![d] = "absent"]

\* ------------------------------------------- the part of the state that
\* handleRpc / beginTxApproval / beginSignApproval write, as a record
Cur ==
    [pendingOrigin |-> pendingOrigin, queuedRpc |-> queuedRpc,
     pendingSign |-> pendingSign, pendingTx |-> pendingTx,
     estimating |-> estimating, estTasks |-> estTasks,
     readTasks |-> readTasks, replies |-> replies]

Commit(b) ==
    /\ pendingOrigin' = b.pendingOrigin
    /\ queuedRpc' = b.queuedRpc
    /\ pendingSign' = b.pendingSign
    /\ pendingTx' = b.pendingTx
    /\ estimating' = b.estimating
    /\ estTasks' = b.estTasks
    /\ readTasks' = b.readTasks
    /\ replies' = b.replies

respondRpc(b, id, outcome) ==
    [b EXCEPT !.replies[id] = Append(@, outcome)]

\* rpc.params[0] of an eth_sendTransaction
firstParam(rpc) ==
    [to |-> IF rpc.arg = "bad" THEN "invalid" ELSE "valid",
     from |-> IF rpc.arg = "otherFrom" THEN otherAddress ELSE address,
     chainId |-> IF rpc.arg = "otherChain"
                 THEN ELECTRONEUM_chainId + 1 ELSE ELECTRONEUM_chainId]

\* the draft of beginTxApproval: normalized = normalizeDappTx(first) with
\* normalized.from = address; to and chainId are taken as the page gave them
normalized(rpc) == [firstParam(rpc) EXCEPT !.from = address]

\* beginTxApproval that does not validate normalized.to
beginTxApprovalNoToCheck(b, rpc) ==
    [b EXCEPT !.pendingTx = [rpc |-> rpc, fee |-> "unset"],
              !.estimating = TRUE,
              !.estTasks = @ \cup {rpc}]

\* beginTxApproval up to its first await
beginTxApproval(b, rpc) ==
    IF normalized(rpc).to # "valid"
    THEN respondRpc(b, rpc.id, "InvalidParams")
    ELSE [b EXCEPT !.pendingTx = [rpc |-> rpc, fee |-> "unset"],
                   !.estimating = TRUE,
                   !.estTasks = @ \cup {rpc}]

\* beginSignApproval; s is the permission store it reads, d the closure's domain
beginSignApproval(b, rpc, s, d) ==
    IF ~isDomainConnected(s, d)
    THEN [b EXCEPT !.queuedRpc = rpc, !.pendingOrigin = rpc.origin]
    ELSE IF rpc.method \in {"personal_sign", "eth_signTypedData_v4"}
    THEN CASE rpc.arg = "bad" -> respondRpc(b, rpc.id, "InvalidParams")
           [] rpc.arg = "foreign" -> respondRpc(b, rpc.id, "Unauthorized")
           [] OTHER -> [b EXCEPT !.pendingSign = rpc]
    ELSE respondRpc(b, rpc.id, "UnsupportedMethod")

\* handleRpc up to its first await on the chain collaborator
handleRpc(b, rpc, s, d) ==
    LET connected == isDomainConnected(s, d) IN
    IF rpc.method = SEND_METHOD
    THEN IF ~connected
         THEN [b EXCEPT !.queuedRpc = rpc, !.pendingOrigin = rpc.origin]
         ELSE beginTxApproval(b, rpc)
    ELSE IF isSignMethod(rpc.method)
    THEN beginSignApproval(b, rpc, s, d)
    ELSE IF isPublicRpc(rpc.method)
    THEN [b EXCEPT !.readTasks = @ \cup {rpc}]
    ELSE IF isConnectedReadRpc(rpc.method)
    THEN IF ~connected
         THEN respondRpc(b, rpc.id, "NotConnected")
         ELSE IF rpc.method \in {"eth_getBalance", "eth_getTransactionCount"}
         THEN CASE rpc.arg = "bad" -> respondRpc(b, rpc.id, "InvalidParams")
                [] rpc.arg = "foreign" -> respondRpc(b, rpc.id, "Unauthorized")
                [] OTHER -> [b EXCEPT !.readTasks = @ \cup {rpc}]
         \* eth_call / eth_estimateGas: p[0] = { ...callObj, from: address }
         ELSE IF rpc.arg = "bad"
         THEN respondRpc(b, rpc.id, "InvalidParams")
         ELSE [b EXCEPT !.readTasks = @ \cup {[rpc EXCEPT !.arg = "good"]}]
    ELSE respondRpc(b, rpc.id, "UnsupportedMethod")

\* location.origin of the document at host d, as the injected provider sends it
locationOrigin(d) == d

\* the requests the page sends: a transaction (well formed or without a
\* valid `to`), a personal_sign (for the wallet's address or for another
\* one), an eth_signTypedData and a public read
Requests ==
    {[method |-> SEND_METHOD, arg |-> "good"],
     [method |-> SEND_METHOD, arg |-> "bad"],
     [method |-> "personal_sign", arg |-> "good"],
     [method |-> "personal_sign", arg |-> "foreign"],
     [method |-> "eth_signTypedData", arg |-> "good"],
     [method |-> "eth_chainId", arg |-> "good"]}

\* ------------------------------------------------------------------ Init
\* ------------------------------------------------------------------ vault
\* The library functions are taken as ideal: TextEncoder / TextDecoder and
\* base64 are inverse bijections, scrypt gives different keys for different
\* (passcode, salt, params), and a secretbox opens only under the key and
\* nonce it was made with.
NoMnemonic == "null"
NoVault == [v |-> 0]
\* a stored item that is not JSON text
CorruptVault == [v |-> -1]
NoError == "null"
Null == [null |-> TRUE]
Absent == "absent"
NoAddress == "null"

\* addressFromMnemonic(mnemonic)
addressFromMnemonic(m) == <<"address", m>>

\* SecureStore without any of the wallet's items
NoItems ==
    [HAS_WALLET |-> Absent, BIOMETRIC_ENABLED |-> Absent,
     AUTOLOCK_ENABLED |-> Absent, BIO_PIN |-> Absent]

\* useSession's initial address and preferences
InitialPrefs == [address |-> NoAddress, biometricEnabled |-> FALSE, autoLockEnabled |-> TRUE]

\* hydrate(): the preferences read back from SecureStore
hydrate(p, sec) ==
    [p EXCEPT !.autoLockEnabled =
                  IF sec.AUTOLOCK_ENABLED # Absent THEN sec.AUTOLOCK_ENABLED = "1" ELSE TRUE,
              !.biometricEnabled =
                  IF sec.BIOMETRIC_ENABLED # Absent THEN sec.BIOMETRIC_ENABLED = "1" ELSE FALSE]

\* hasWallet()
hasWallet(sec) == sec.HAS_WALLET = "1"

\* setHasWallet()
setHasWallet(sec) == [sec EXCEPT !.HAS_WALLET = "1"]

\* clearVault(): the flags it deletes besides the vault item
clearVault(sec) == [sec EXCEPT !.HAS_WALLET = Absent, !.BIOMETRIC_ENABLED = Absent]

\* resetDeviceWallet that leaves the biometric passcode cache in place
resetDeviceWalletKeepsBioPin(sec) ==
    [clearVault(sec) EXCEPT !.AUTOLOCK_ENABLED = Absent, !.BIOMETRIC_ENABLED = Absent]

\* resetDeviceWallet(): the SecureStore items after clearVault() and the
\* three deletions
resetDeviceWallet(sec) ==
    [clearVault(sec) EXCEPT !.AUTOLOCK_ENABLED = Absent, !.BIO_PIN = Absent,
                            !.BIOMETRIC_ENABLED = Absent]

Screen(name, m) == [screen |-> name, mnemonic |-> m]

\* the injected script as it starts in a document: rid = 0, pending = {}
FreshPage == [rid |-> 0, pending |-> {}]

\* nothing posted by any page yet
NoWire == [sent |-> <<>>, delivered |-> [i \in 1..MaxReq |-> 0], settled |-> {}]

\* the three together before anything happened
raceIdle ==
    /\ permTasks = {}
    /\ page = FreshPage
    /\ wire = NoWire

\* recovery phrases that reach the passcode screen (BIP-39 phrases: created by
\* createWallet or accepted by HDNodeWallet.fromPhrase) and six-digit passcodes
Mnemonics == {"m1", "m2"}
Passcodes == {"111111", "222222", "333333"}
Salts == {"s1", "s2"}
Nonces == {"n1", "n2"}

\* UTF-8 bytes of a well-formed string, and the string of such bytes
TextEncode(str) == [utf8 |-> str]
TextDecode(bytes) == bytes.utf8
b64(bytes) == [b64 |-> bytes]
unb64(str) == str.b64

DEFAULT_SCRYPT == [N |-> 16384, r |-> 8, p |-> 1, dkLen |-> 32]

\* scrypt as a function that sends different inputs to different keys
deriveKeyScrypt(passcode, salt, params) ==
    [pw |-> TextEncode(passcode), salt |-> salt, params |-> params]

\* nacl.secretbox and nacl.secretbox.open as an ideal authenticated cipher:
\* a box opens under the key and nonce it was made with and under no other
secretbox(msg, nonce, key) == [msg |-> msg, nonce |-> nonce, key |-> key]

secretboxOpen(box, nonce, key) ==
    IF box.nonce = nonce /\ box.key = key THEN box.msg ELSE Null

\* saveVaultV1(mnemonic, passcode) with the salt and nonce randomBytes gave:
\* the value written under dw_vault_v1
saveVaultV1(m, passcode, salt, nonce) ==
    LET key == deriveKeyScrypt(passcode, salt, DEFAULT_SCRYPT)
        boxed == secretbox(TextEncode(m), nonce, key)
    IN [v |-> 1,
        kdf |-> [alg |-> "scrypt", params |-> DEFAULT_SCRYPT, salt |-> b64(salt)],
        box |-> [nonce |-> b64(nonce), ciphertext |-> b64(boxed)]]

\* unlockVaultV1 that derives the key with the default parameters and a
\* constant salt instead of those stored in the vault
unlockVaultV1FixedSalt(v, passcode) ==
    IF v = CorruptVault
    THEN [ok |-> FALSE, value |-> "SyntaxError"]
    ELSE IF v = NoVault \/ v.v # 1
    THEN [ok |-> FALSE, value |-> "Vault not found"]
    ELSE LET key == deriveKeyScrypt(passcode, "s1", DEFAULT_SCRYPT)
             opened == secretboxOpen(unb64(v.box.ciphertext), unb64(v.box.nonce), key)
         IN IF opened = Null
            THEN [ok |-> FALSE, value |-> "Invalid passcode"]
            ELSE [ok |-> TRUE, value |-> TextDecode(opened)]

\* unlockVaultV1(passcode) on the stored vault v: the mnemonic, or the error thrown
unlockVaultV1(v, passcode) ==
    IF v = CorruptVault
    THEN [ok |-> FALSE, value |-> "SyntaxError"]
    ELSE IF v = NoVault \/ v.v # 1
    THEN [ok |-> FALSE, value |-> "Vault not found"]
    ELSE LET salt == unb64(v.kdf.salt)
             key == deriveKeyScrypt(passcode, salt, v.kdf.params)
             nonce == unb64(v.box.nonce)
             ciphertext == unb64(v.box.ciphertext)
             opened == secretboxOpen(ciphertext, nonce, key)
         IN IF opened = Null
            THEN [ok |-> FALSE, value |-> "Invalid passcode"]
            ELSE [ok |-> TRUE, value |-> TextDecode(opened)]

\* HoldToConfirm's cleanup: when the sheet it belongs to is no longer visible
\* the component unmounts and a timer still armed is cleared
unmounted(h, ps, pt) ==
    IF /\ h.timer = "armed"
       /\ \/ h.sheet = "sign" /\ ps = NoRpc
          \/ h.sheet = "tx" /\ pt = NoTx
    THEN NoHold
    ELSE h

Init ==
    /\ isUnlocked = TRUE
    /\ domain = InitialDomain
    /\ pageHost = InitialDomain
    /\ store = [d \in Domains |-> "absent"]
    /\ pendingOrigin = NoOrigin
    /\ queuedRpc = NoRpc
    /\ pendingSign = NoRpc
    /\ signing = FALSE
    /\ pendingTx = NoTx
    /\ estimating = FALSE
    /\ sending = FALSE
    /\ estTasks = {}
    /\ sendTask = NoTx
    /\ readTasks = {}
    /\ replies = [i \in 1..MaxReq |-> <<>>]
    /\ pageAccounts = FALSE
    /\ broadcast = {}
    /\ approved = {}
    /\ nextId = 1
    /\ lastEvent = <<"mount", 0>>
    /\ hold = NoHold
    /\ mnemonic = "m1"
    /\ vault = saveVaultV1("m1", "111111", "s1", "n1")
    /\ unlockError = NoError
    /\ secure = setHasWallet(NoItems)
    /\ prefs = [InitialPrefs EXCEPT !.address = addressFromMnemonic("m1")]
    /\ route = Screen("app", NoMnemonic)
    /\ raceIdle

\* --------------------------------------------------------------- actions
\* WebView onMessage, ETN_RPC_REQUEST
RpcRequest(o, m, a) ==
    /\ isUnlocked
    /\ lastEvent' = <<"RpcRequest", nextId>>
    /\ nextId <= MaxReq
    /\ Commit(handleRpc(Cur, [id |-> nextId, origin |-> o, method |-> m, arg |-> a],
                        store, domain))
    /\ nextId' = nextId + 1
    /\ UNCHANGED <<isUnlocked, domain, pageHost, store, signing, sending, sendTask,
                   pageAccounts, broadcast, approved, hold, walletVars>>

\* respondAccounts(origin, approved) for approved = true: the permission is
\* written for the closure's domain (getDomain(currentUrl))
respondAccountsStore(s, d, origin) == setDomainConnected(s, d, TRUE)

\* respondAccounts that injects [address] whatever the decision
respondAccountsPageAlways(isApproved) == TRUE

\* respondAccounts(origin, approved): whether the account list injected into
\* the page (window.__DW_ACCOUNTS, accountsChanged) is [address]
respondAccountsPage(isApproved) == isApproved

\* onLoadEnd: whether the account list pushed to the loaded page is [address]
onLoadEndAccounts(s, d) == isDomainConnected(s, d)

\* WebView onMessage, ETN_CONNECT_REQUEST
ConnectRequest(o) ==
    /\ isUnlocked
    /\ lastEvent' = <<"ConnectRequest", 0>>
    /\ IF isDomainConnected(store, domain)
       THEN /\ store' = respondAccountsStore(store, domain, o)
            /\ pageAccounts' = respondAccountsPage(TRUE)
            /\ UNCHANGED pendingOrigin
       ELSE /\ pendingOrigin' = o
            /\ UNCHANGED <<store, pageAccounts>>
    /\ UNCHANGED <<isUnlocked, domain, pageHost, queuedRpc, pendingSign, signing,
                   pendingTx, estimating, sending, estTasks, sendTask,
                   readTasks, replies, broadcast, approved, nextId, hold, walletVars>>

\* the re-dispatch of the queued request in ConnectSheet onApprove
redispatch(b, next, s, d) ==
    IF isSignMethod(next.method) THEN beginSignApproval(b, next, s, d)
    ELSE IF next.method = SEND_METHOD THEN beginTxApproval(b, next)
    ELSE handleRpc(b, next, s, d)

\* ConnectSheet onApprove
ApproveConnect ==
    /\ isUnlocked
    /\ lastEvent' = <<"ApproveConnect", queuedRpc.id>>
    /\ pendingOrigin # NoOrigin
    /\ store' = respondAccountsStore(store, domain, pendingOrigin)
    /\ pageAccounts' = respondAccountsPage(TRUE)
    /\ approved' = approved \cup {getDomain(pendingOrigin)}
    /\ LET b0 == [Cur EXCEPT !.pendingOrigin = NoOrigin] IN
       IF queuedRpc # NoRpc
       THEN Commit(redispatch([b0 EXCEPT !.queuedRpc = NoRpc], queuedRpc,
                              store', domain))
       ELSE Commit(b0)
    /\ UNCHANGED <<isUnlocked, domain, pageHost, signing, sending, sendTask, broadcast, nextId, hold, walletVars>>

\* ConnectSheet onDeny (button, backdrop, modal close)
DenyConnect ==
    /\ isUnlocked
    /\ lastEvent' = <<"DenyConnect", queuedRpc.id>>
    /\ pendingOrigin # NoOrigin
    /\ pageAccounts' = respondAccountsPage(FALSE)
    /\ LET b0 == [Cur EXCEPT !.pendingOrigin = NoOrigin] IN
       IF queuedRpc # NoRpc
       THEN Commit([respondRpc(b0, queuedRpc.id, "UserRejected")
                        EXCEPT !.queuedRpc = NoRpc])
       ELSE Commit(b0)
    /\ UNCHANGED <<isUnlocked, domain, pageHost, store, signing, sending, sendTask,
                   broadcast, approved, nextId, hold, walletVars>>

\* beginTxApproval after getFeeData / estimateGas returned (res is the fee
\* data got: EIP-1559 fields, a gas price, or neither) or threw ("error")
EstDone(r, res) ==
    /\ isUnlocked
    /\ lastEvent' = <<"EstDone", r.id>>
    /\ r \in estTasks
    /\ estTasks' = estTasks \ {r}
    /\ pendingTx' = IF res \in FeeModes THEN [rpc |-> r, fee |-> res] ELSE pendingTx
    /\ estimating' = FALSE
    /\ UNCHANGED <<isUnlocked, domain, pageHost, store, pendingOrigin, queuedRpc,
                   pendingSign, signing, sending, sendTask, readTasks, replies, pageAccounts, broadcast,
                   approved, nextId, hold, walletVars>>

\* approveTx up to the await of sendTransaction; HoldToConfirm of the
\* TxSheet is disabled while estimating or sending
ApproveTx ==
    /\ isUnlocked
    /\ lastEvent' = <<"ApproveTx", pendingTx.rpc.id>>
    /\ pendingTx # NoTx
    /\ ~estimating /\ ~sending
    /\ sending' = TRUE
    /\ sendTask' = pendingTx
    /\ UNCHANGED <<isUnlocked, domain, pageHost, store, pendingOrigin, queuedRpc,
                   pendingSign, signing, pendingTx, estimating, estTasks,
                   readTasks, replies, pageAccounts,
                   broadcast, approved, nextId, hold, walletVars>>

\* approveTx that sends pendingTx.tx as drafted
txToSendAsDrafted(ptx) ==
    [rpc |-> ptx.rpc,
     to |-> normalized(ptx.rpc).to,
     from |-> normalized(ptx.rpc).from,
     chainId |-> normalized(ptx.rpc).chainId,
     fee |-> ptx.fee]

\* approveTx: txToSend = { ...pendingTx.tx, from: address, chainId: ELECTRONEUM.chainId }
txToSend(ptx) ==
    [rpc |-> ptx.rpc,
     to |-> normalized(ptx.rpc).to,
     from |-> address,
     chainId |-> ELECTRONEUM_chainId,
     fee |-> ptx.fee]

\* approveTx that on a thrown sendTransaction calls it again instead of
\* replying and clearing the slot
SendDoneRetry(ok) ==
    /\ isUnlocked
    /\ lastEvent' = <<"SendDone", sendTask.rpc.id>>
    /\ sendTask # NoTx
    /\ replies' = IF ok
                  THEN [replies EXCEPT ![sendTask.rpc.id] = Append(@, "Hash")]
                  ELSE replies
    /\ broadcast' = IF ok
                    THEN broadcast \cup {txToSend(sendTask)}
                    ELSE broadcast
    /\ pendingTx' = IF ok THEN NoTx ELSE pendingTx
    /\ sending' = ~ok
    /\ sendTask' = IF ok THEN NoTx ELSE sendTask
    /\ UNCHANGED <<isUnlocked, domain, pageHost, store, pendingOrigin, queuedRpc,
                   pendingSign, signing, estimating, estTasks, readTasks, pageAccounts, approved, nextId, walletVars>>
    /\ hold' = unmounted(hold, pendingSign', pendingTx')

\* approveTx after sendTransaction returned (ok) or threw
SendDone(ok) ==
    /\ isUnlocked
    /\ lastEvent' = <<"SendDone", sendTask.rpc.id>>
    /\ sendTask # NoTx
    /\ replies' = [replies EXCEPT ![sendTask.rpc.id] =
                       Append(@, IF ok THEN "Hash" ELSE "SendFailed")]
    /\ broadcast' = IF ok
                    THEN broadcast \cup {txToSend(sendTask)}
                    ELSE broadcast
    /\ pendingTx' = NoTx
    /\ sending' = FALSE
    /\ sendTask' = NoTx
    /\ UNCHANGED <<isUnlocked, domain, pageHost, store, pendingOrigin, queuedRpc,
                   pendingSign, signing, estimating, estTasks, readTasks, pageAccounts, approved, nextId, walletVars>>
    /\ hold' = unmounted(hold, pendingSign', pendingTx')

\* denyTx: Reject button, backdrop press or modal close of the TxSheet
DenyTx ==
    /\ isUnlocked
    /\ lastEvent' = <<"DenyTx", pendingTx.rpc.id>>
    /\ pendingTx # NoTx
    /\ replies' = [replies EXCEPT ![pendingTx.rpc.id] = Append(@, "UserRejected")]
    /\ pendingTx' = NoTx
    /\ UNCHANGED <<isUnlocked, domain, pageHost, store, pendingOrigin, queuedRpc,
                   pendingSign, signing, estimating, sending, estTasks,
                   sendTask, readTasks, pageAccounts,
                   broadcast, approved, nextId, walletVars>>
    /\ hold' = unmounted(hold, pendingSign', pendingTx')

\* approveSign; HoldToConfirm of the SignSheet is disabled while signing.
\* The signer is the wallet derived in-process from the mnemonic (getSigner):
\* signing does no I/O, so approveSign runs to its end before another handler
\* runs; ok tells whether the signer returned or threw.
ApproveSign(ok) ==
    /\ isUnlocked
    /\ lastEvent' = <<"ApproveSign", pendingSign.id>>
    /\ pendingSign # NoRpc
    /\ ~signing
    /\ replies' = [replies EXCEPT ![pendingSign.id] =
                       Append(@, IF ok THEN "Signature" ELSE "SigningFailed")]
    /\ pendingSign' = NoRpc
    /\ signing' = FALSE
    /\ UNCHANGED <<isUnlocked, domain, pageHost, store, pendingOrigin, queuedRpc,
                   pendingTx, estimating, sending, estTasks, sendTask,
                   readTasks, pageAccounts, broadcast, approved,
                   nextId, walletVars>>
    /\ hold' = unmounted(hold, pendingSign', pendingTx')

\* denySign: Reject button, backdrop press or modal close of the SignSheet
DenySign ==
    /\ isUnlocked
    /\ lastEvent' = <<"DenySign", pendingSign.id>>
    /\ pendingSign # NoRpc
    /\ replies' = [replies EXCEPT ![pendingSign.id] = Append(@, "UserRejected")]
    /\ pendingSign' = NoRpc
    /\ UNCHANGED <<isUnlocked, domain, pageHost, store, pendingOrigin, queuedRpc,
                   signing, pendingTx, estimating, sending, estTasks,
                   sendTask, readTasks, pageAccounts,
                   broadcast, approved, nextId, walletVars>>
    /\ hold' = unmounted(hold, pendingSign', pendingTx')

\* handleRpc after provider.send returned (ok) or threw
ReadDone(r, ok) ==
    /\ isUnlocked
    /\ lastEvent' = <<"ReadDone", r.id>>
    /\ r \in readTasks
    /\ readTasks' = readTasks \ {r}
    /\ replies' = [replies EXCEPT ![r.id] =
                       Append(@, IF ok THEN "Result" ELSE "RpcFailed")]
    /\ UNCHANGED <<isUnlocked, domain, pageHost, store, pendingOrigin, queuedRpc,
                   pendingSign, signing, pendingTx, estimating, sending,
                   estTasks, sendTask, pageAccounts,
                   broadcast, approved, nextId, hold, walletVars>>

\* doDisconnect (menu item "Disconnect site")
Disconnect ==
    /\ isUnlocked
    /\ lastEvent' = <<"Disconnect", 0>>
    /\ store' = disconnectDomain(store, domain)
    /\ pageAccounts' = FALSE
    /\ approved' = approved \ {domain}
    /\ UNCHANGED <<isUnlocked, domain, pageHost, pendingOrigin, queuedRpc, pendingSign,
                   signing, pendingTx, estimating, sending, estTasks,
                   sendTask, readTasks, replies,
                   broadcast, nextId, hold, walletVars>>

\* onNavigationStateChange / onOpenWindow / onShouldStartLoadWithRequest:
\* currentUrl is set to the URL the WebView is asked to load, at host d; the
\* document on screen is still the one loaded before
NavigationStart(d) ==
    /\ isUnlocked
    /\ lastEvent' = <<"NavigationStart", 0>>
    /\ d # domain
    /\ domain' = d
    /\ UNCHANGED <<isUnlocked, pageHost, store, pendingOrigin, queuedRpc,
                   pendingSign, signing, pendingTx, estimating, sending,
                   estTasks, sendTask, readTasks, replies,
                   pageAccounts, broadcast, approved, nextId, hold, walletVars>>

\* the WebView replaces its document by the one at currentUrl; the new
\* document starts without window.__DW_ACCOUNTS
DocumentCommit ==
    /\ isUnlocked
    /\ lastEvent' = <<"DocumentCommit", 0>>
    /\ pageHost # domain
    /\ pageHost' = domain
    /\ pageAccounts' = FALSE
    /\ UNCHANGED <<isUnlocked, domain, store, pendingOrigin, queuedRpc,
                   pendingSign, signing, pendingTx, estimating, sending,
                   estTasks, sendTask, readTasks, replies,
                   broadcast, approved, nextId, hold, walletVars>>

\* WebView onLoadEnd
LoadEnd ==
    /\ isUnlocked
    /\ lastEvent' = <<"LoadEnd", 0>>
    /\ pageHost = domain
    /\ pageAccounts' = onLoadEndAccounts(store, domain)
    /\ UNCHANGED <<isUnlocked, domain, pageHost, store, pendingOrigin, queuedRpc,
                   pendingSign, signing, pendingTx, estimating, sending,
                   estTasks, sendTask, readTasks, replies,
                   broadcast, approved, nextId, hold, walletVars>>

\* a lock() that leaves the mnemonic in memory
lockKeepsMnemonic(mn) == mn

\* lock(): the session's mnemonic afterwards
lock(mn) == NoMnemonic

\* session lock (auto-lock or Settings): WebScreen renders null and is
\* replaced by the unlock screen.  The component's state cells are discarded
\* with it, the WebView and its page are gone, and the continuations still in
\* flight can neither set state nor reach the page (webRef.current is null).
Lock ==
    /\ isUnlocked
    /\ lastEvent' = <<"Lock", 0>>
    /\ isUnlocked' = FALSE
    /\ domain' = InitialDomain
    /\ pageHost' = InitialDomain
    /\ pendingOrigin' = NoOrigin
    /\ queuedRpc' = NoRpc
    /\ pendingSign' = NoRpc
    /\ signing' = FALSE
    /\ pendingTx' = NoTx
    /\ estimating' = FALSE
    /\ sending' = FALSE
    /\ estTasks' = {}
    /\ sendTask' = NoTx
    /\ readTasks' = {}
    /\ pageAccounts' = FALSE
    /\ hold' = NoHold
    /\ mnemonic' = lock(mnemonic)
    /\ route' = Screen("unlock", NoMnemonic)
    /\ UNCHANGED <<vault, unlockError, secure, prefs>>
    /\ page' = FreshPage
    /\ UNCHANGED <<permTasks, wire>>
    /\ UNCHANGED <<store, replies, broadcast, approved, nextId>>

\* the outcomes of a fee estimation the bridge as a whole is explored with:
\* fee data with EIP-1559 fields, or a thrown error
EstResults == {"eip1559", "error"}

\* everything that happens while the screen is mounted and the session unlocked
NextBridge ==
    \/ \E q \in Requests : RpcRequest(locationOrigin(pageHost), q.method, q.arg)
    \/ ConnectRequest(locationOrigin(pageHost))
    \/ ApproveConnect
    \/ DenyConnect
    \/ \E r \in estTasks, res \in EstResults : EstDone(r, res)
    \/ ApproveTx
    \/ \E ok \in BOOLEAN : SendDone(ok)
    \/ DenyTx
    \/ \E ok \in BOOLEAN : ApproveSign(ok)
    \/ DenySign
    \/ \E r \in readTasks, ok \in BOOLEAN : ReadDone(r, ok)
    \/ Disconnect
    \/ \E d \in Domains : NavigationStart(d)
    \/ DocumentCommit
    \/ LoadEnd

Next ==
    \/ NextBridge
    \/ Lock

Spec == Init /\ [][Next]_vars

\* The session stays unlocked, the user decides every sheet that stays on
\* screen and every call to the chain collaborator returns.
Fairness ==
    /\ WF_vars(ApproveConnect \/ DenyConnect)
    /\ WF_vars(ApproveTx \/ DenyTx)
    /\ WF_vars((\E ok \in BOOLEAN : ApproveSign(ok)) \/ DenySign)
    /\ WF_vars(\E r \in estTasks, res \in EstResults : EstDone(r, res))
    /\ WF_vars(\E ok \in BOOLEAN : SendDone(ok))
    /\ WF_vars(\E r \in readTasks, ok \in BOOLEAN : ReadDone(r, ok))

FairSpec == Init /\ [][NextBridge]_vars /\ Fairness

\* ------------------------------------------------- connected-only reads
\* the read requests a page sends: each connected-only read with its address
\* parameter (the target, or the from of the call object) equal to the
\* wallet's address, different from it, or malformed; and a public read
ReadRequests ==
    [method : CONNECTED_READ_RPC_METHODS, arg : Args]
        \cup {[method |-> "eth_chainId", arg |-> "good"]}

ReadRequest(o, q) == RpcRequest(o, q.method, q.arg)

NextRead ==
    \/ \E q \in ReadRequests : ReadRequest(locationOrigin(pageHost), q)
    \/ ConnectRequest(locationOrigin(pageHost))
    \/ ApproveConnect
    \/ DenyConnect
    \/ \E r \in readTasks, ok \in BOOLEAN : ReadDone(r, ok)
    \/ Disconnect

ReadSpec == Init /\ [][NextRead]_vars

\* ----------------------------------------------------------- sign requests
\* the sign requests a page sends: each sign method with a signing address
\* equal to the wallet's, different from it, or malformed parameters
SignRequests == [method : SIGN_METHODS, arg : Args]

SignRequest(o, q) == RpcRequest(o, q.method, q.arg)

NextSign ==
    \/ \E q \in SignRequests : SignRequest(locationOrigin(pageHost), q)
    \/ ConnectRequest(locationOrigin(pageHost))
    \/ ApproveConnect
    \/ DenyConnect
    \/ \E ok \in BOOLEAN : ApproveSign(ok)
    \/ DenySign
    \/ Disconnect

SignSpec == Init /\ [][NextSign]_vars

\* ---------------------------------------------------- transaction requests
\* the eth_sendTransaction requests a page sends
TxRequests == [method : {SEND_METHOD}, arg : TxArgs]

TxRequest(o, q) == RpcRequest(o, q.method, q.arg)

NextTx ==
    \/ \E q \in TxRequests : TxRequest(locationOrigin(pageHost), q)
    \/ ConnectRequest(locationOrigin(pageHost))
    \/ ApproveConnect
    \/ DenyConnect
    \/ \E r \in estTasks, res \in FeeModes \cup {"error"} : EstDone(r, res)
    \/ ApproveTx
    \/ \E ok \in BOOLEAN : SendDone(ok)
    \/ DenyTx
    \/ Disconnect

TxSpec == Init /\ [][NextTx]_vars

\* ----------------------------------------------------------- HoldToConfirm
\* disabled prop of the HoldToConfirm of a sheet
holdDisabled(sheet) ==
    IF sheet = "sign" THEN signing ELSE estimating \/ sending

\* onPressIn = start: nothing when disabled; otherwise the timer is armed
\* with a callback that closes over the onConfirmed of this render, that is
\* approveSign / approveTx with the pendingSign / pendingTx of this render
PressIn(sheet) ==
    /\ isUnlocked
    /\ lastEvent' = <<"PressIn", 0>>
    /\ hold.timer = "none"
    /\ \/ sheet = "sign" /\ pendingSign # NoRpc
       \/ sheet = "tx" /\ pendingTx # NoTx
    /\ ~holdDisabled(sheet)
    /\ hold' = [timer |-> "armed", sheet |-> sheet,
                sign |-> IF sheet = "sign" THEN pendingSign ELSE NoRpc,
                tx |-> IF sheet = "tx" THEN pendingTx ELSE NoTx,
                elapsed |-> 0]
    /\ UNCHANGED <<isUnlocked, domain, pageHost, store, pendingOrigin, queuedRpc,
                   pendingSign, signing, pendingTx, estimating, sending,
                   estTasks, sendTask, readTasks, replies, pageAccounts,
                   broadcast, approved, nextId, walletVars>>

\* time passes while the control is held
Tick ==
    /\ isUnlocked
    /\ lastEvent' = <<"Tick", 0>>
    /\ hold.timer = "armed"
    /\ hold.elapsed < ms
    /\ hold' = [hold EXCEPT !.elapsed = @ + TickMs]
    /\ UNCHANGED <<isUnlocked, domain, pageHost, store, pendingOrigin, queuedRpc,
                   pendingSign, signing, pendingTx, estimating, sending,
                   estTasks, sendTask, readTasks, replies, pageAccounts,
                   broadcast, approved, nextId, walletVars>>

\* onPressOut = reset: the timer is cleared
PressOut ==
    /\ isUnlocked
    /\ lastEvent' = <<"PressOut", 0>>
    /\ hold.timer = "armed"
    /\ hold' = NoHold
    /\ UNCHANGED <<isUnlocked, domain, pageHost, store, pendingOrigin, queuedRpc,
                   pendingSign, signing, pendingTx, estimating, sending,
                   estTasks, sendTask, readTasks, replies, pageAccounts,
                   broadcast, approved, nextId, walletVars>>

\* the setTimeout callback starts after ms: reset(), then it awaits the
\* haptic feedback
TimerFires ==
    /\ isUnlocked
    /\ lastEvent' = <<"TimerFires", 0>>
    /\ hold.timer = "armed"
    /\ hold.elapsed >= ms
    /\ hold' = [hold EXCEPT !.timer = "fired"]
    /\ UNCHANGED <<isUnlocked, domain, pageHost, store, pendingOrigin, queuedRpc,
                   pendingSign, signing, pendingTx, estimating, sending,
                   estTasks, sendTask, readTasks, replies, pageAccounts,
                   broadcast, approved, nextId, walletVars>>

\* the callback resumes and calls onConfirmed: the approveSign it closed
\* over, which signs the messageToSign / typedData of its own pendingSign,
\* replies with that request's id and sets the Sign slot to null
HoldConfirmedSign(ok) ==
    /\ isUnlocked
    /\ lastEvent' = <<"HoldConfirmedSign", hold.sign.id>>
    /\ hold.timer = "fired"
    /\ hold.sheet = "sign"
    /\ replies' = [replies EXCEPT ![hold.sign.id] =
                       Append(@, IF ok THEN "Signature" ELSE "SigningFailed")]
    /\ pendingSign' = NoRpc
    /\ signing' = FALSE
    /\ hold' = NoHold
    /\ UNCHANGED <<isUnlocked, domain, pageHost, store, pendingOrigin, queuedRpc,
                   pendingTx, estimating, sending, estTasks, sendTask,
                   readTasks, pageAccounts, broadcast, approved, nextId, walletVars>>

\* the callback resumes and calls onConfirmed: the approveTx it closed over,
\* up to the await of sendTransaction, with its own pendingTx
HoldConfirmedTx ==
    /\ isUnlocked
    /\ lastEvent' = <<"HoldConfirmedTx", hold.tx.rpc.id>>
    /\ hold.timer = "fired"
    /\ hold.sheet = "tx"
    /\ sending' = TRUE
    /\ sendTask' = hold.tx
    /\ hold' = NoHold
    /\ UNCHANGED <<isUnlocked, domain, pageHost, store, pendingOrigin, queuedRpc,
                   pendingSign, signing, pendingTx, estimating, estTasks,
                   readTasks, replies, pageAccounts, broadcast, approved, nextId, walletVars>>

\* the requests the bridge with its hold-to-confirm controls is explored with
HoldRequests ==
    {[method |-> "personal_sign", arg |-> "good"],
     [method |-> SEND_METHOD, arg |-> "good"]}

HoldRequest(o, q) == RpcRequest(o, q.method, q.arg)

NextHold ==
    \/ \E q \in HoldRequests : HoldRequest(locationOrigin(pageHost), q)
    \/ ApproveConnect
    \/ DenyConnect
    \/ \E r \in estTasks, res \in EstResults : EstDone(r, res)
    \/ \E ok \in BOOLEAN : SendDone(ok)
    \/ DenyTx
    \/ DenySign
    \/ \E sheet \in {"sign", "tx"} : PressIn(sheet)
    \/ Tick
    \/ PressOut
    \/ TimerFires
    \/ \E ok \in BOOLEAN : HoldConfirmedSign(ok)
    \/ HoldConfirmedTx

HoldSpec == Init /\ [][NextHold]_vars

\* --------------------------------------------------- onboarding and unlock
\* the browser screen's state: unchanged by the onboarding and unlock screens
bridgeVars ==
    <<domain, pageHost, store, pendingOrigin, queuedRpc, pendingSign, signing,
      pendingTx, estimating, sending, estTasks, sendTask, readTasks, replies,
      pageAccounts, broadcast, approved, nextId, hold>>

\* a device without a wallet: nothing stored, session locked
VaultInit ==
    /\ isUnlocked = FALSE
    /\ mnemonic = NoMnemonic
    /\ vault = NoVault
    /\ unlockError = NoError
    /\ domain = InitialDomain
    /\ pageHost = InitialDomain
    /\ store = [d \in Domains |-> "absent"]
    /\ pendingOrigin = NoOrigin
    /\ queuedRpc = NoRpc
    /\ pendingSign = NoRpc
    /\ signing = FALSE
    /\ pendingTx = NoTx
    /\ estimating = FALSE
    /\ sending = FALSE
    /\ estTasks = {}
    /\ sendTask = NoTx
    /\ readTasks = {}
    /\ replies = [i \in 1..MaxReq |-> <<>>]
    /\ pageAccounts = FALSE
    /\ broadcast = {}
    /\ approved = {}
    /\ nextId = 1
    /\ lastEvent = <<"launch", 0>>
    /\ hold = NoHold
    /\ secure = NoItems
    /\ prefs = InitialPrefs
    /\ route = Screen("welcome", NoMnemonic)
    /\ raceIdle

\* passcode screen, onNext at step 2: saveVaultV1(mnemonic, pin), then
\* setUnlocked(mnemonic, address)
SaveVault(m, passcode, salt, nonce) ==
    /\ ~isUnlocked
    /\ route = Screen("passcode", m)
    /\ lastEvent' = <<"SaveVault", 0>>
    /\ vault' = saveVaultV1(m, passcode, salt, nonce)
    /\ secure' = setHasWallet(secure)
    /\ isUnlocked' = TRUE
    /\ mnemonic' = m
    /\ prefs' = [prefs EXCEPT !.address = addressFromMnemonic(m)]
    /\ route' = Screen("app", NoMnemonic)
    /\ UNCHANGED unlockError
    /\ UNCHANGED raceVars
    /\ UNCHANGED bridgeVars

\* unlock screen, finishUnlock(passcode)
FinishUnlock(passcode) ==
    /\ ~isUnlocked
    /\ route.screen = "unlock"
    /\ lastEvent' = <<"FinishUnlock", 0>>
    /\ LET opened == unlockVaultV1(vault, passcode)
       IN IF opened.ok
          THEN /\ isUnlocked' = TRUE
               /\ mnemonic' = opened.value
               /\ prefs' = [prefs EXCEPT !.address = addressFromMnemonic(opened.value)]
               /\ route' = Screen("app", NoMnemonic)
               /\ unlockError' = NoError
          ELSE /\ unlockError' = "Incorrect passcode."
               /\ UNCHANGED <<isUnlocked, mnemonic, prefs, route>>
    /\ UNCHANGED <<vault, secure>>
    /\ UNCHANGED raceVars
    /\ UNCHANGED bridgeVars

\* the browser screen's state cells and the continuations in flight are
\* discarded with the screen
bridgeDiscarded ==
    /\ domain' = InitialDomain
    /\ pageHost' = InitialDomain
    /\ pendingOrigin' = NoOrigin
    /\ queuedRpc' = NoRpc
    /\ pendingSign' = NoRpc
    /\ signing' = FALSE
    /\ pendingTx' = NoTx
    /\ estimating' = FALSE
    /\ sending' = FALSE
    /\ estTasks' = {}
    /\ sendTask' = NoTx
    /\ readTasks' = {}
    /\ pageAccounts' = FALSE
    /\ hold' = NoHold
    /\ UNCHANGED <<replies, broadcast, approved, nextId>>

\* the app process starts: memory is fresh, hydrate() reads the preferences
\* and Index routes by hasWallet()
Launch ==
    /\ lastEvent' = <<"Launch", 0>>
    /\ isUnlocked' = FALSE
    /\ mnemonic' = NoMnemonic
    /\ unlockError' = NoError
    /\ prefs' = hydrate(InitialPrefs, secure)
    /\ route' = Screen(IF hasWallet(secure) THEN "unlock" ELSE "welcome", NoMnemonic)
    /\ bridgeDiscarded
    /\ UNCHANGED <<vault, secure, store>>
    /\ permTasks' = {}
    /\ page' = FreshPage
    /\ UNCHANGED wire

\* create screen, "I saved it": the generated phrase goes to the confirm screen
CreateContinue(m) ==
    /\ route.screen = "welcome"
    /\ lastEvent' = <<"CreateContinue", 0>>
    /\ route' = Screen("confirm", m)
    /\ UNCHANGED <<isUnlocked, mnemonic, vault, unlockError, secure, prefs>>
    /\ UNCHANGED raceVars
    /\ UNCHANGED bridgeVars

\* confirm screen, "Finish setup": setHasWallet(), then the passcode screen
ConfirmFinish ==
    /\ route.screen = "confirm"
    /\ lastEvent' = <<"ConfirmFinish", 0>>
    /\ secure' = setHasWallet(secure)
    /\ route' = Screen("passcode", route.mnemonic)
    /\ UNCHANGED <<isUnlocked, mnemonic, vault, unlockError, prefs>>
    /\ UNCHANGED raceVars
    /\ UNCHANGED bridgeVars

\* import screen, onContinue with a phrase HDNodeWallet.fromPhrase accepts
ImportContinue(m) ==
    /\ route.screen = "welcome"
    /\ lastEvent' = <<"ImportContinue", 0>>
    /\ route' = Screen("passcode", m)
    /\ UNCHANGED <<isUnlocked, mnemonic, vault, unlockError, secure, prefs>>
    /\ UNCHANGED raceVars
    /\ UNCHANGED bridgeVars

\* settings, auto-lock switch: setAutoLockEnabled(v)
SetAutoLockEnabled(v) ==
    /\ isUnlocked
    /\ lastEvent' = <<"SetAutoLockEnabled", 0>>
    /\ prefs' = [prefs EXCEPT !.autoLockEnabled = v]
    /\ secure' = [secure EXCEPT !.AUTOLOCK_ENABLED = IF v THEN "1" ELSE "0"]
    /\ UNCHANGED <<isUnlocked, mnemonic, vault, unlockError, route>>
    /\ UNCHANGED raceVars
    /\ UNCHANGED bridgeVars

\* settings, PasscodeSheet onConfirm: unlockVaultV1(pin) must succeed, then
\* setBioPin(pin) and setBiometricEnabled(true)
EnableBiometrics(pin) ==
    /\ isUnlocked
    /\ unlockVaultV1(vault, pin).ok
    /\ lastEvent' = <<"EnableBiometrics", 0>>
    /\ secure' = [secure EXCEPT !.BIO_PIN = pin, !.BIOMETRIC_ENABLED = "1"]
    /\ prefs' = [prefs EXCEPT !.biometricEnabled = TRUE]
    /\ UNCHANGED <<isUnlocked, mnemonic, vault, unlockError, route>>
    /\ UNCHANGED raceVars
    /\ UNCHANGED bridgeVars

\* settings, disableBiometrics: clearBioPin() and setBiometricEnabled(false)
DisableBiometrics ==
    /\ isUnlocked
    /\ lastEvent' = <<"DisableBiometrics", 0>>
    /\ secure' = [secure EXCEPT !.BIO_PIN = Absent, !.BIOMETRIC_ENABLED = Absent]
    /\ prefs' = [prefs EXCEPT !.biometricEnabled = FALSE]
    /\ UNCHANGED <<isUnlocked, mnemonic, vault, unlockError, route>>
    /\ UNCHANGED raceVars
    /\ UNCHANGED bridgeVars

\* settings, "Erase from device": resetDeviceWallet(), then the welcome screen
ResetDeviceWallet ==
    /\ isUnlocked
    /\ lastEvent' = <<"ResetDeviceWallet", 0>>
    /\ vault' = NoVault
    /\ secure' = resetDeviceWallet(secure)
    /\ isUnlocked' = FALSE
    /\ mnemonic' = NoMnemonic
    /\ prefs' = [address |-> NoAddress, biometricEnabled |-> FALSE, autoLockEnabled |-> TRUE]
    /\ route' = Screen("welcome", NoMnemonic)
    /\ bridgeDiscarded
    /\ UNCHANGED <<unlockError, store>>
    /\ page' = FreshPage
    /\ UNCHANGED <<permTasks, wire>>

\* RootLayout's AppState listener: the app leaves the foreground
AutoLock ==
    /\ prefs.autoLockEnabled
    /\ Lock

NextVault ==
    \/ \E m \in Mnemonics : CreateContinue(m)
    \/ ConfirmFinish
    \/ \E m \in Mnemonics : ImportContinue(m)
    \/ \E m \in Mnemonics, passcode \in Passcodes, salt \in Salts, nonce \in Nonces :
          SaveVault(m, passcode, salt, nonce)
    \/ \E passcode \in Passcodes : FinishUnlock(passcode)
    \/ Lock
    \/ AutoLock
    \/ \E v \in BOOLEAN : SetAutoLockEnabled(v)
    \/ \E pin \in Passcodes : EnableBiometrics(pin)
    \/ DisableBiometrics
    \/ ResetDeviceWallet
    \/ Launch

VaultSpec == VaultInit /\ [][NextVault]_vars

\* ------------------------------------------------ opening a stored vault
\* the browser screen as it is while the session is locked
bridgeCellsIdle ==
    /\ domain = InitialDomain
    /\ pageHost = InitialDomain
    /\ pendingOrigin = NoOrigin
    /\ queuedRpc = NoRpc
    /\ pendingSign = NoRpc
    /\ signing = FALSE
    /\ pendingTx = NoTx
    /\ estimating = FALSE
    /\ sending = FALSE
    /\ estTasks = {}
    /\ sendTask = NoTx
    /\ readTasks = {}
    /\ replies = [i \in 1..MaxReq |-> <<>>]
    /\ pageAccounts = FALSE
    /\ broadcast = {}
    /\ approved = {}
    /\ nextId = 1
    /\ hold = NoHold

bridgeIdle ==
    /\ store = [d \in Domains |-> "absent"]
    /\ bridgeCellsIdle

SavedVaults ==
    {saveVaultV1(m, passcode, salt, nonce) :
        m \in Mnemonics, passcode \in Passcodes, salt \in Salts, nonce \in Nonces}

\* a saved vault whose ciphertext was replaced by bytes that no key opens
tampered(v) ==
    [v EXCEPT !.box.ciphertext =
        b64(secretbox(unb64(@).msg, unb64(@).nonce, [forged |-> TRUE]))]

\* what SecureStore may hold under dw_vault_v1 when the unlock screen opens
StoredVaults ==
    {NoVault, CorruptVault} \cup SavedVaults \cup {tampered(v) : v \in SavedVaults}

OpenInit ==
    /\ isUnlocked = FALSE
    /\ mnemonic = NoMnemonic
    /\ vault \in StoredVaults
    /\ unlockError = NoError
    /\ secure = setHasWallet(NoItems)
    /\ prefs = InitialPrefs
    /\ route = Screen("unlock", NoMnemonic)
    /\ raceIdle
    /\ lastEvent = <<"launch", 0>>
    /\ bridgeIdle

NextOpen ==
    \/ \E passcode \in Passcodes : FinishUnlock(passcode)
    \/ Lock

OpenSpec == OpenInit /\ [][NextOpen]_vars

\* ------------------------------------------- wipe and the permission store
\* a wallet connects a site, is erased, and another wallet is set up
NextWipe ==
    \/ ConnectRequest(locationOrigin(pageHost))
    \/ ApproveConnect
    \/ DenyConnect
    \/ Disconnect
    \/ \E d \in Domains : NavigationStart(d)
    \/ DocumentCommit
    \/ LoadEnd
    \/ ResetDeviceWallet
    \/ \E m \in Mnemonics : ImportContinue(m)
    \/ \E m \in Mnemonics, passcode \in Passcodes, salt \in Salts, nonce \in Nonces :
          SaveVault(m, passcode, salt, nonce)

WipeSpec == Init /\ [][NextWipe]_vars

\* ------------------------------------------- the permission store's calls
\* host strings the store is called with: the two sites, a subdomain and a
\* sibling of the first, and a host that is the name of a property every
\* JavaScript object has
PermHosts == Domains \cup {"sub.d1", "d1.example", "__proto__"}

\* an unlocked wallet with an empty permission store
PermInit ==
    /\ store = [d \in PermHosts |-> "absent"]
    /\ bridgeCellsIdle
    /\ isUnlocked = TRUE
    /\ mnemonic = "m1"
    /\ vault = saveVaultV1("m1", "111111", "s1", "n1")
    /\ unlockError = NoError
    /\ secure = setHasWallet(NoItems)
    /\ prefs = [InitialPrefs EXCEPT !.address = addressFromMnemonic("m1")]
    /\ route = Screen("app", NoMnemonic)
    /\ raceIdle
    /\ lastEvent = <<"mount", 0>>

\* await setDomainConnected(d, connected), run to completion
SetDomainConnectedCall(d, connected) ==
    /\ lastEvent' = <<"setDomainConnected", 0>>
    /\ store' = setDomainConnected(store, d, connected)
    /\ UNCHANGED <<isUnlocked, domain, pageHost, pendingOrigin, queuedRpc, pendingSign,
                   signing, pendingTx, estimating, sending, estTasks, sendTask,
                   readTasks, replies, pageAccounts, broadcast, approved, nextId,
                   hold, walletVars>>

\* await disconnectDomain(d), run to completion
DisconnectDomainCall(d) ==
    /\ lastEvent' = <<"disconnectDomain", 0>>
    /\ store' = disconnectDomain(store, d)
    /\ UNCHANGED <<isUnlocked, domain, pageHost, pendingOrigin, queuedRpc, pendingSign,
                   signing, pendingTx, estimating, sending, estTasks, sendTask,
                   readTasks, replies, pageAccounts, broadcast, approved, nextId,
                   hold, walletVars>>

NextPerm ==
    \/ \E d \in PermHosts, connected \in BOOLEAN : SetDomainConnectedCall(d, connected)
    \/ \E d \in PermHosts : DisconnectDomainCall(d)

PermSpec == PermInit /\ [][NextPerm]_vars

\* ------------------------------- overlapping calls of the permission store
\* setDomainConnected / disconnectDomain up to `const s = await read()`:
\* the call holds the whole map it read
PermRead(op, d, connected) ==
    /\ Cardinality(permTasks) < MaxPermOps
    /\ lastEvent' = <<"read", 0>>
    /\ permTasks' = permTasks \cup
          {[op |-> op, domain |-> d, connected |-> connected, s |-> store]}
    /\ UNCHANGED <<isUnlocked, domain, pageHost, store, pendingOrigin, queuedRpc,
                   pendingSign, signing, pendingTx, estimating, sending, estTasks,
                   sendTask, readTasks, replies, pageAccounts, broadcast, approved,
                   nextId, hold, mnemonic, vault, unlockError, secure, prefs, route,
                   page, wire>>

\* the rest of the call: the map it read, changed at its own domain, is
\* written back whole
PermWrite(t) ==
    /\ t \in permTasks
    /\ lastEvent' = <<"write", 0>>
    /\ store' = IF t.op = "setDomainConnected"
                THEN setDomainConnected(t.s, t.domain, t.connected)
                ELSE disconnectDomain(t.s, t.domain)
    /\ permTasks' = permTasks \ {t}
    /\ UNCHANGED <<isUnlocked, domain, pageHost, pendingOrigin, queuedRpc,
                   pendingSign, signing, pendingTx, estimating, sending, estTasks,
                   sendTask, readTasks, replies, pageAccounts, broadcast, approved,
                   nextId, hold, mnemonic, vault, unlockError, secure, prefs, route,
                   page, wire>>

NextPermRace ==
    \/ \E d \in Domains : PermRead("setDomainConnected", d, TRUE)
    \/ \E d \in Domains : PermRead("disconnectDomain", d, FALSE)
    \/ \E t \in permTasks : PermWrite(t)

PermRaceSpec == PermInit /\ [][NextPermRace]_vars

\* ------------------------------------- a chain collaborator that stays silent
\* The user decides every sheet that stays on screen; nothing obliges the
\* chain collaborator to answer a fee estimation or a broadcast, and the
\* handlers arm no timer of their own.
HangFairness ==
    /\ WF_vars(ApproveConnect \/ DenyConnect)
    /\ WF_vars(ApproveTx \/ DenyTx)

HangSpec == Init /\ [][NextTx]_vars /\ HangFairness

\* --------------------------------------------- the page's side of the bridge
\* In this part a request is identified by its position in wire.sent, which
\* is also the id the bridge's actions know it by; the id the page gave it
\* (rid, restarting at 1 in every document) is wire.sent[i].pid, and that is
\* the id __DW_RESPOND is called with.
PageRequests == [method : {SEND_METHOD, "eth_getBalance"}, arg : {"good"}]

\* injected script, rpc(method, params): ++rid, postMessage, pending[id] = promise
PagePost(q) ==
    /\ isUnlocked
    /\ Len(wire.sent) < MaxReq
    /\ lastEvent' = <<"rpc", Len(wire.sent) + 1>>
    /\ page' = [rid |-> page.rid + 1, pending |-> page.pending \cup {Len(wire.sent) + 1}]
    /\ wire' = [wire EXCEPT !.sent =
                    Append(@, [pid |-> page.rid + 1, origin |-> locationOrigin(pageHost),
                               method |-> q.method, arg |-> q.arg])]
    /\ UNCHANGED <<isUnlocked, domain, pageHost, store, pendingOrigin, queuedRpc,
                   pendingSign, signing, pendingTx, estimating, sending, estTasks,
                   sendTask, readTasks, replies, pageAccounts, broadcast, approved,
                   nextId, hold, mnemonic, vault, unlockError, secure, prefs, route,
                   permTasks>>

\* WebView onMessage for the oldest posted message not yet handled
Receive ==
    /\ nextId <= Len(wire.sent)
    /\ RpcRequest(wire.sent[nextId].origin, wire.sent[nextId].method, wire.sent[nextId].arg)

\* the script respondRpc injected for request u runs in the document on
\* screen: __DW_RESPOND(id, ...) settles and deletes pending[id], if any
Deliver(u) ==
    /\ isUnlocked
    /\ wire.delivered[u] < Len(replies[u])
    /\ lastEvent' = <<"__DW_RESPOND", u>>
    /\ LET hit == {e \in page.pending : wire.sent[e].pid = wire.sent[u].pid} IN
       /\ page' = [page EXCEPT !.pending = @ \ hit]
       /\ wire' = [wire EXCEPT !.delivered[u] = @ + 1,
                               !.settled = @ \cup {[request |-> e, reply |-> u] : e \in hit}]
    /\ UNCHANGED <<isUnlocked, domain, pageHost, store, pendingOrigin, queuedRpc,
                   pendingSign, signing, pendingTx, estimating, sending, estTasks,
                   sendTask, readTasks, replies, pageAccounts, broadcast, approved,
                   nextId, hold, mnemonic, vault, unlockError, secure, prefs, route,
                   permTasks>>

\* hardRefresh: the WebView is remounted and loads currentUrl again.  The new
\* document runs the injected script from its start; scripts injected into
\* the old WebView and not yet run, and messages it posted that were not yet
\* handled, are gone with it; the component's state cells (the slots, the
\* calls in flight) stay.
Reload ==
    /\ isUnlocked
    /\ lastEvent' = <<"hardRefresh", 0>>
    /\ page' = FreshPage
    /\ wire' = [wire EXCEPT !.delivered = [i \in 1..MaxReq |-> Len(replies[i])]]
    /\ nextId' = Len(wire.sent) + 1
    /\ pageHost' = domain
    /\ pageAccounts' = FALSE
    /\ UNCHANGED <<isUnlocked, domain, store, pendingOrigin, queuedRpc,
                   pendingSign, signing, pendingTx, estimating, sending, estTasks,
                   sendTask, readTasks, replies, broadcast, approved,
                   hold, mnemonic, vault, unlockError, secure, prefs, route,
                   permTasks>>

NextPage ==
    \/ \E q \in PageRequests : PagePost(q)
    \/ Receive
    \/ ConnectRequest(locationOrigin(pageHost))
    \/ ApproveConnect
    \/ DenyConnect
    \/ \E r \in estTasks, res \in EstResults : EstDone(r, res)
    \/ ApproveTx
    \/ \E ok \in BOOLEAN : SendDone(ok)
    \/ DenyTx
    \/ \E r \in readTasks, ok \in BOOLEAN : ReadDone(r, ok)
    \/ Reload
    \/ \E u \in 1..MaxReq : Deliver(u)

PageSpec == Init /\ [][NextPage]_vars

\* ---------------------------------------------------------------- claims
connectPending == pendingOrigin # NoOrigin
signPending == pendingSign # NoRpc
txPending == pendingTx # NoTx

\* C1: in every reachable state at most one of the Connect slot
\* (pendingOrigin), the Sign slot (pendingSign) and the Transaction slot
\* (pendingTx) is non-empty.
OnePendingRequest ==
    /\ ~(connectPending /\ signPending)
    /\ ~(connectPending /\ txPending)
    /\ ~(signPending /\ txPending)

\* C2: while the Transaction slot holds a request, no step puts another
\* request in it: the slot keeps the request it holds until it is emptied.
TxSlotKeepsRequest ==
    [][(txPending /\ pendingTx' # NoTx) => pendingTx'.rpc = pendingTx.rpc]_vars

\* C3: respondRpc is invoked at most once for every request id.
AtMostOneReply == \A i \in 1..MaxReq : Len(replies[i]) <= 1

accepted(i) == nextId > i
answered(i) == replies[i] # <<>>
rejected(i) == \E k \in 1..Len(replies[i]) : replies[i][k] = "UserRejected"

\* a request is held when a slot, the queue or a call in flight still has it
held(i) ==
    \/ queuedRpc.id = i
    \/ pendingSign.id = i
    \/ pendingTx.rpc.id = i
    \/ sendTask.rpc.id = i
    \/ \E r \in estTasks \cup readTasks : r.id = i

\* C4 (as a liveness property): every RPC request the bridge accepted is
\* eventually answered, when the user decides every sheet and every call returns.
EveryRequestAnswered == \A i \in 1..MaxReq : accepted(i) ~> answered(i)

\* C4: an accepted request that has no reply yet is still held by the queue,
\* a slot or a call in flight, so that a reply for it can still be produced;
\* no accepted request is dropped unanswered.
NoRequestDropped ==
    \A i \in 1..MaxReq : (accepted(i) /\ ~answered(i)) => held(i)

\* C5: a request the user denied does not occupy the Sign or Transaction
\* slot again: after the deny the slot is not re-populated with it.
DeniedStaysOut ==
    /\ txPending => ~rejected(pendingTx.rpc.id)
    /\ signPending => ~rejected(pendingSign.id)

\* C6: approve-connect marks connected the host of the origin held in the
\* Connect slot and changes no other domain's permission.
ApproveConnectsPendingOrigin ==
    [][ApproveConnect =>
          store' = setDomainConnected(store, getDomain(pendingOrigin), TRUE)]_vars

\* the error replies of beginTxApproval and beginSignApproval
ErrorReplies == {"InvalidParams", "Unauthorized", "UnsupportedMethod"}

needsApproval(m) == m = SEND_METHOD \/ isSignMethod(m)

\* C7: a sign or send request arriving while the page's domain is not
\* connected is queued and raises the Connect approval; it stays queued
\* until the user decides the connect; approve-connect
\* persists the permission, re-dispatches exactly the queued request (it
\* reaches its Sign or Transaction slot or gets an error reply) and leaves
\* the queue empty.
QueuedThenResumed ==
    [][/\ \A q \in Requests :
            (/\ RpcRequest(locationOrigin(pageHost), q.method, q.arg)
             /\ needsApproval(q.method)
             /\ ~isDomainConnected(store, getDomain(locationOrigin(pageHost))))
            => /\ queuedRpc' = [id |-> nextId, origin |-> locationOrigin(pageHost),
                                method |-> q.method, arg |-> q.arg]
               /\ pendingOrigin' = locationOrigin(pageHost)
               /\ UNCHANGED <<pendingSign, pendingTx, replies, store>>
       /\ (queuedRpc # NoRpc /\ ~ApproveConnect /\ ~DenyConnect /\ ~Lock)
            => queuedRpc' = queuedRpc
       /\ (ApproveConnect /\ queuedRpc # NoRpc)
            => /\ isDomainConnected(store', domain)
               /\ queuedRpc' = NoRpc
               /\ pendingOrigin' = NoOrigin
               /\ \/ /\ pendingSign' = queuedRpc
                     /\ UNCHANGED <<pendingTx, replies>>
                  \/ /\ pendingTx' = [rpc |-> queuedRpc, fee |-> "unset"]
                     /\ queuedRpc \in estTasks'
                     /\ UNCHANGED <<pendingSign, replies>>
                  \/ /\ \E e \in ErrorReplies :
                            replies' = [replies EXCEPT ![queuedRpc.id] =
                                            Append(@, e)]
                     /\ UNCHANGED <<pendingSign, pendingTx>>
      ]_vars

\* C8: deny-connect leaves the permission store unchanged, leaves the page
\* with an empty account list, answers the queued request with UserRejected
\* and empties the queue.
DenyConnectEffect ==
    [][DenyConnect =>
          /\ store' = store
          /\ pageAccounts' = FALSE
          /\ pendingOrigin' = NoOrigin
          /\ queuedRpc' = NoRpc
          /\ IF queuedRpc # NoRpc
             THEN replies' = [replies EXCEPT ![queuedRpc.id] =
                                  Append(@, "UserRejected")]
             ELSE replies' = replies]_vars

C8Witness ==
    \E i \in 1..MaxReq :
        /\ lastEvent = <<"DenyConnect", i>>
        /\ replies[i] = <<"UserRejected">>
        /\ queuedRpc = NoRpc
        /\ ~pageAccounts
        /\ \A d \in Domains : ~isDomainConnected(store, d)

\* C9: a connect request from a host whose connect request was approved, and
\* that was not disconnected since, is answered at once with [address] and
\* raises no Connect approval.
ApprovedHostNotPromptedAgain ==
    [][(/\ ConnectRequest(locationOrigin(pageHost))
        /\ getDomain(locationOrigin(pageHost)) \in approved)
          => /\ pendingOrigin' = pendingOrigin
             /\ pageAccounts']_vars

\* C10: the page sees [address] only while its own domain is connected in
\* the permission store; otherwise its account list is empty.
AccountsOnlyWhenConnected == pageAccounts => isDomainConnected(store, pageHost)

\* C11: a connected-only read from a connected page whose address parameter
\* differs from the wallet's address is answered Unauthorized and starts no
\* call to the chain collaborator; from an unconnected page it is answered
\* with an error and starts no call.
ForeignReadRejected ==
    [][\A q \in ReadRequests :
          (/\ ReadRequest(locationOrigin(pageHost), q)
           /\ isConnectedReadRpc(q.method))
          => /\ (isDomainConnected(store, pageHost) /\ q.arg = "foreign")
                  => /\ replies'[nextId] = <<"Unauthorized">>
                     /\ readTasks' = readTasks
             /\ ~isDomainConnected(store, pageHost)
                  => /\ replies'[nextId] = <<"NotConnected">>
                     /\ readTasks' = readTasks]_vars

\* C12: for each of the three sign methods, a well-formed request from a
\* connected page signing for the wallet's address raises the Sign approval
\* and gets no error reply; one signing for another address is answered
\* Unauthorized and raises no approval.
SignMethodsRaiseApproval ==
    [][\A q \in SignRequests :
          (/\ SignRequest(locationOrigin(pageHost), q)
           /\ isDomainConnected(store, pageHost))
          => /\ q.arg = "good"
                  => /\ pendingSign'.id = nextId
                     /\ pendingSign'.method = q.method
                     /\ replies'[nextId] = <<>>
             /\ q.arg = "foreign"
                  => /\ replies'[nextId] = <<"Unauthorized">>
                     /\ UNCHANGED <<pendingOrigin, pendingSign, pendingTx>>]_vars

\* C13: an eth_sendTransaction without a well-formed `to` is answered with a
\* validation error, starts no fee estimation and raises no Transaction
\* approval; every request in the Transaction slot or under estimation, and
\* every transaction handed to the signer, has a well-formed `to`.
InvalidToFailsClosed ==
    [][/\ \A q \in TxRequests :
            (/\ TxRequest(locationOrigin(pageHost), q)
             /\ isDomainConnected(store, pageHost)
             /\ firstParam([id |-> nextId, origin |-> locationOrigin(pageHost),
                            method |-> q.method, arg |-> q.arg]).to # "valid")
            => /\ replies'[nextId] = <<"InvalidParams">>
               /\ UNCHANGED <<estTasks, pendingTx, estimating, sendTask, broadcast>>
       /\ pendingTx' # NoTx => firstParam(pendingTx'.rpc).to = "valid"
       /\ sendTask' # NoTx => firstParam(sendTask'.rpc).to = "valid"
       /\ \A r \in estTasks' : firstParam(r).to = "valid"
       /\ \A t \in broadcast' : t.to = "valid"]_vars

C13Witness ==
    /\ \E i \in 1..MaxReq : replies[i] = <<"InvalidParams">>
    /\ \E t \in broadcast : t.to = "valid"

\* C14: every transaction handed to the signer on approve-tx carries the
\* wallet's network id as chainId and the wallet's address as from, whatever
\* the page's transaction object carried.
SignedForOwnChainAndAddress ==
    \A t \in broadcast : t.chainId = ELECTRONEUM_chainId /\ t.from = address

C14Witness ==
    /\ \E t \in broadcast :
          /\ firstParam(t.rpc).chainId # ELECTRONEUM_chainId
          /\ t.chainId = ELECTRONEUM_chainId
    /\ \E t \in broadcast :
          /\ firstParam(t.rpc).from # address
          /\ t.from = address

\* C15: no transaction whose last estimate had neither EIP-1559 fee fields
\* nor a gas price (mode unknown, fee zero) is handed to the signer.
UnknownFeeNotSubmitted == \A t \in broadcast : t.fee # "unknown"

\* C16: every transaction handed to the signer on approve-tx carries the gas
\* limit and fee fields of a completed estimate of its draft; a draft whose
\* estimation failed or has not completed is not sent.
OnlyEstimatedDraftSent == \A t \in broadcast : t.fee \in FeeModes

\* C17: when the hold completes and approveSign runs, the request it signs
\* and replies to is the one in the Sign slot, whose preview the sheet shows.
SignsDisplayedRequest ==
    [][(\E ok \in BOOLEAN : HoldConfirmedSign(ok)) => hold.sign = pendingSign]_vars

\* C19: the confirm action of a HoldToConfirm starts only when the control
\* was held for the whole duration and is not disabled.
ConfirmOnlyAfterFullEnabledHold ==
    [][TimerFires => /\ hold.elapsed >= ms
                     /\ ~holdDisabled(hold.sheet)]_vars

VaultRoundTrip ==
    [][/\ \A m \in Mnemonics, passcode \in Passcodes, salt \in Salts, nonce \in Nonces :
            SaveVault(m, passcode, salt, nonce)
            => \A q \in Passcodes :
                  unlockVaultV1(vault', q) =
                      IF q = passcode
                      THEN [ok |-> TRUE, value |-> m]
                      ELSE [ok |-> FALSE, value |-> "Invalid passcode"]
       /\ \A q \in Passcodes :
            FinishUnlock(q)
            => IF unlockVaultV1(vault, q).ok
               THEN isUnlocked' /\ mnemonic' = unlockVaultV1(vault, q).value
               ELSE ~isUnlocked' /\ mnemonic' = NoMnemonic]_vars

C20Witness ==
    /\ lastEvent = <<"FinishUnlock", 0>>
    /\ ~isUnlocked
    /\ mnemonic = NoMnemonic
    /\ unlockError = "Incorrect passcode."
    /\ vault # NoVault
    /\ \E q \in Passcodes : unlockVaultV1(vault, q) = [ok |-> TRUE, value |-> "m2"]
\* C21: every failure of unlockVaultV1 is the same error, whether the
\* passcode is wrong, the stored vault is tampered or corrupt, or no vault
\* can be read.
OpenFailuresAlike ==
    [][\A q \in Passcodes :
          (FinishUnlock(q) /\ ~unlockVaultV1(vault, q).ok)
          => unlockVaultV1(vault, q).value = "Invalid passcode"]_vars
\* C22: after resetDeviceWallet, from any state, the vault, the has-wallet
\* flag, the biometric flag, the biometric passcode cache and the auto-lock
\* preference are absent from storage and the session is locked without
\* mnemonic and address; a second wipe of that storage changes nothing.
WipeCompleteAndIdempotent ==
    [][ResetDeviceWallet
       => /\ vault' = NoVault
          /\ secure' = NoItems
          /\ ~isUnlocked'
          /\ mnemonic' = NoMnemonic
          /\ prefs'.address = NoAddress
          /\ resetDeviceWallet(secure') = secure']_vars

C22Witness ==
    /\ lastEvent = <<"ResetDeviceWallet", 0>>
    /\ vault = NoVault
    /\ secure = NoItems
    /\ ~isUnlocked
    /\ prefs = InitialPrefs
\* C23: after a full wallet wipe no domain is connected.
WipeDisconnectsEverySite ==
    [][ResetDeviceWallet => \A d \in Domains : ~isDomainConnected(store', d)]_vars
\* C24: in every reachable session state the session is locked exactly when
\* it holds no mnemonic: lock (manual, auto-lock, wipe) clears it, and only a
\* successful unlock or setup puts one in memory.
LockedHoldsNoMnemonic ==
    /\ ~isUnlocked => mnemonic = NoMnemonic
    /\ isUnlocked => mnemonic \in Mnemonics

C24Witness ==
    /\ lastEvent = <<"Lock", 0>>
    /\ ~isUnlocked
    /\ mnemonic = NoMnemonic
    /\ vault \in SavedVaults
    /\ prefs.address # NoAddress
\* C25: after any sequence of setDomainConnected(d, true|false) and
\* disconnectDomain(d) calls the persisted map has an entry for d exactly
\* when d is connected.
EntryIffConnected ==
    \A d \in PermHosts : (store[d] # "absent") <=> isDomainConnected(store, d)

\* C26: after setDomainConnected(d, true) d is connected, after
\* disconnectDomain(d) it is not, disconnecting an unknown host changes
\* nothing, each call repeated changes nothing more, and no call changes
\* whether another host (a subdomain included) is connected.
PermissionStoreLaws ==
    [][\A d \in PermHosts :
          /\ SetDomainConnectedCall(d, TRUE)
                => /\ isDomainConnected(store', d)
                   /\ setDomainConnected(store', d, TRUE) = store'
          /\ DisconnectDomainCall(d)
                => /\ ~isDomainConnected(store', d)
                   /\ disconnectDomain(store', d) = store'
                   /\ store[d] = "absent" => store' = store
          /\ (\/ \E connected \in BOOLEAN : SetDomainConnectedCall(d, connected)
              \/ DisconnectDomainCall(d))
                => \A e \in PermHosts \ {d} :
                      isDomainConnected(store', e) = isDomainConnected(store, e)]_vars
\* C30: when calls on different domains overlap, the write of one does not
\* undo the other: it leaves the persisted entry of every other domain as
\* it is in the store at that moment.
NoLostPermissionUpdate ==
    [][\A t \in permTasks :
          PermWrite(t)
          => \A e \in PermHosts \ {t.domain} : store'[e] = store[e]]_vars
\* C27: the approval machine does not stay estimating or sending forever,
\* even when the chain collaborator does not answer.
NoSilentHang ==
    /\ estimating ~> ~estimating
    /\ sending ~> ~sending
\* C28: whenever the persisted has-wallet flag is set a vault is stored,
\* whatever onboarding steps and app restarts happened.
HasWalletImpliesVault == hasWallet(secure) => vault # NoVault
\* C29: a reply the wallet injects for a request settles the page-side
\* promise of that request only, never the promise of another request that
\* a later document issued under the same id.
ReplySettlesOwnRequest == \A s \in wire.settled : s.request = s.reply
====
